---- MODULE Spec2Model ----
(***************************************************************************)
(* A model of geometer's curve module (src/geometer/curve.py) and of the   *)
(* linear-algebra helpers it uses (src/geometer/utils/math.py).            *)
(*                                                                         *)
(* The library is a set of pure operations on immutable values, so the     *)
(* state of the model is the last call made: its name, its arguments and   *)
(* what it returned (or the exception it raised).  AlgebraicCurve.intersect*)
(* is the one operation with a loop whose iterations can fail one by one;  *)
(* it is modelled step by step with the program counter pc.                *)
(*                                                                         *)
(* Numbers.  Coordinates are integers that are small enough for every      *)
(* float64 product and sum of the code to be exact; a vector is a tuple, a *)
(* matrix a tuple of rows.  Python indexes from 0, the model from 1.       *)
(* Quotients are kept exact as a numerator and a denominator.              *)
(***************************************************************************)
EXTENDS Integers, Sequences, FiniteSets, TLC

VARIABLES op, args, res, pc, loc

vars == <<op, args, res, pc, loc>>

(***************************************************************************)
(* Bounds of the model.                                                    *)
(***************************************************************************)
MaxCoord == 1

MaxScalar == 2

Coord == (0 - MaxCoord)..MaxCoord

Scalars == ((0 - MaxScalar)..MaxScalar) \ {0}

(***************************************************************************)
(* Integer helpers.                                                        *)
(***************************************************************************)
Abs(x) == IF x < 0 THEN 0 - x ELSE x

RECURSIVE SumSeq(_)
SumSeq(s) == IF s = <<>> THEN 0 ELSE Head(s) + SumSeq(Tail(s))

RECURSIVE GCD(_, _)
GCD(a, b) == IF b = 0 THEN Abs(a) ELSE GCD(b, a % Abs(b))

RECURSIVE NewtonSqrt(_, _)
NewtonSqrt(x, r) ==
    LET n == (r + x \div r) \div 2
    IN  IF n >= r THEN r ELSE NewtonSqrt(x, n)

\* int(np.sqrt(x)) for an integer x >= 0.
FloorSqrt(x) == IF x < 2 THEN x ELSE NewtonSqrt(x, x)

IsSquare(x) == x >= 0 /\ FloorSqrt(x) * FloorSqrt(x) = x

\* The root of a perfect square; it has no value on another number.
ExactRoot(x) ==
    LET r == FloorSqrt(x)
    IN  IF x >= 0 /\ r * r = x THEN r ELSE CHOOSE y \in {} : TRUE

\* numpy.lib.scimath.sqrt on a perfect square: the principal (non-negative) root.
\* Every radicand the model feeds it is a perfect square.
csqrt(x) == ExactRoot(x)

\* np.isclose(x, y, rtol, atol): |x - y| <= atol + rtol*|y| with atol = 1e-8 and
\* rtol <= 1e-5.  For integers below 2^31 the right-hand side is below 1, so the
\* test is equality.
isclose(x, y) == x = y

(***************************************************************************)
(* Vectors and matrices.                                                   *)
(***************************************************************************)
Vectors(n) == [1..n -> Coord]

ZeroVec(n) == [i \in 1..n |-> 0]

NonZeroVectors(n) == Vectors(n) \ {ZeroVec(n)}

IsZero(a) == \A i \in 1..Len(a) : a[i] = 0

Dot(a, b) == SumSeq([i \in 1..Len(a) |-> a[i] * b[i]])

Scale(k, a) == [i \in 1..Len(a) |-> k * a[i]]

\* np.cross(a, b)
Cross(a, b) ==
    << a[2] * b[3] - a[3] * b[2], a[3] * b[1] - a[1] * b[3], a[1] * b[2] - a[2] * b[1] >>

\* np.outer(a, b)
Outer(a, b) == [i \in 1..Len(a) |-> [j \in 1..Len(b) |-> a[i] * b[j]]]

Transpose(m) == [i \in 1..Len(m[1]) |-> [j \in 1..Len(m) |-> m[j][i]]]

MatAdd(a, b) == [i \in 1..Len(a) |-> [j \in 1..Len(a[i]) |-> a[i][j] + b[i][j]]]

\* self.array.dot(v)
MatVec(m, v) == [i \in 1..Len(m) |-> Dot(m[i], v)]

Row(m, i) == m[i]

Column(m, j) == [i \in 1..Len(m) |-> m[i][j]]

\* a.ravel(): the rows one after the other.
RECURSIVE Ravel(_)
Ravel(m) == IF m = <<>> THEN <<>> ELSE Head(m) \o Ravel(Tail(m))

(***************************************************************************)
(* utils/math.py                                                           *)
(***************************************************************************)
\* A slip: the scalar product is compared unsquared.
is_multiple_unsquared(a, b) ==
    isclose(Dot(a, b), Dot(a, a) * Dot(b, b))

\* is_multiple(a, b, axis=None): the arrays are raveled by the caller where they
\* are matrices; conj() is the identity on real arrays.
is_multiple(a, b) ==
    LET ab == Dot(a, b)
    IN  isclose(ab * ab, Dot(a, a) * Dot(b, b))

\* The k-th pair (0-based k) of np.triu_indices(n, 1) reversed, as 1-based (i, j).
TriuPairs(n) == {p \in (1..n) \X (1..n) : p[1] < p[2]}

TriuIndex(n, p) ==
    LET i == p[1] - 1
        j == p[2] - 1
    IN  i * n - (i * (i + 1)) \div 2 + (j - i - 1)

\* Matrices of the model have 2 to 4 rows (quadrics of the line, the plane and
\* 3-space).
Dims == {2, 3, 4}

ReversedTriuTable ==
    [n \in Dims |-> [k \in 0..((n * (n - 1)) \div 2 - 1) |->
        CHOOSE p \in TriuPairs(n) : TriuIndex(n, p) = (n * (n - 1)) \div 2 - 1 - k]]

ReversedTriu(n, k) == ReversedTriuTable[n][k]

\* The position in x of the entry hat_matrix writes at (r, s), r < s.
HatPositionTable ==
    [n \in Dims |-> [p \in TriuPairs(n) |->
        CHOOSE k \in 0..((n * (n - 1)) \div 2 - 1) : ReversedTriu(n, k) = p]]

\* hat_matrix(x) for a list x of n(n-1)/2 scalars.
hat_matrix(x) ==
    LET n == (1 + FloorSqrt(1 + 8 * Len(x))) \div 2
    IN  IF n = 3
        THEN LET a == x[1]
                 b == x[2]
                 c == x[3]
             IN  << <<0, c, 0 - b>>, <<0 - c, 0, a>>, <<b, 0 - a, 0>> >>
        ELSE [r \in 1..n |-> [s \in 1..n |->
                 IF r = s THEN 0
                 ELSE IF r < s
                      THEN x[1 + HatPositionTable[n][<<r, s>>]]
                      ELSE 0 - x[1 + HatPositionTable[n][<<s, r>>]]]]

(***************************************************************************)
(* Quadric (curve.py).  A quadric value is its class, its matrix and its   *)
(* is_dual flag.                                                           *)
(***************************************************************************)
\* The entries of the matrix are array[i][j] / den; den is 1 unless the matrix
\* comes out of np.linalg.inv.
QuadricOver(cls, matrix, den, is_dual) ==
    [cls |-> cls, array |-> matrix, den |-> den, is_dual |-> is_dual]

\* Quadric.__init__(matrix, is_dual)
Quadric(cls, matrix, is_dual) == QuadricOver(cls, matrix, 1, is_dual)

\* Quadric.from_planes / Conic.from_lines: m = np.outer(e, f); cls(m + m.T)
from_planes(cls, e, f) ==
    LET m == Outer(e, f)
    IN  Quadric(cls, MatAdd(m, Transpose(m)), FALSE)

\* np.linalg.det(self.array[row_ind, col_ind]) for the rows and columns p = (r, c):
\* a principal minor of order 2.
PrincipalMinor(m, p) == m[p[1]][p[1]] * m[p[2]][p[2]] - m[p[1]][p[2]] * m[p[2]][p[1]]

\* The rows and columns left by the k-th (0-based) element of
\* combinations(range(n), n-2): the deleted sets come in lexicographic order, so
\* the pairs left come in reverse lexicographic order.
RemainingPairTable ==
    [n \in Dims |-> [k \in 0..((n * (n - 1)) \div 2 - 1) |->
        CHOOSE p \in TriuPairs(n) :
            Cardinality({q \in TriuPairs(n) :
                q[1] > p[1] \/ (q[1] = p[1] /\ q[2] > p[2])}) = k]]

RemainingPair(n, k) == RemainingPairTable[n][k]

\* The list x of Quadric.components.
MinorRoots(m) ==
    LET n == Len(m)
    IN  [k \in 1..((n * (n - 1)) \div 2) |-> csqrt(0 - PrincipalMinor(m, RemainingPair(n, k - 1)))]

\* t = self.array + hat_matrix(x)
RankOneMatrix(m) == MatAdd(m, hat_matrix(MinorRoots(m)))

\* np.unravel_index(np.abs(t).argmax(), t.shape): the positions argmax can take.
\* The entries of t are floating-point sums of an entry of the array and a root
\* of a computed determinant; where several have the largest absolute value in
\* exact arithmetic their rounding decides which is the largest, so argmax takes
\* any of them.
ArgMaxAbs(t) ==
    { i \in (1..Len(t)) \X (1..Len(t)) :
        \A j \in (1..Len(t)) \X (1..Len(t)) : Abs(t[j[1]][j[2]]) <= Abs(t[i[1]][i[2]]) }

\* The type of the components: Point if dual, Line if n = 3, Plane otherwise.
ComponentType(q) ==
    IF q.is_dual THEN "Point" ELSE IF Len(q.array) = 3 THEN "Line" ELSE "Plane"

\* Quadric.components: the pairs it can return, one for every position argmax
\* can take.
components(q) ==
    LET t == RankOneMatrix(q.array)
    IN  { [type |-> ComponentType(q), e |-> Row(t, i[1]), f |-> Column(t, i[2])] :
            i \in ArgMaxAbs(t) }

\* A slip: the last coordinate of the point is left out of the product.
tangent_short(q, at) ==
    [i \in 1..Len(q.array) |->
        SumSeq([j \in 1..(Len(at) - 1) |-> q.array[i][j] * at[j]])]

\* Quadric.tangent(at): Plane(self.array.dot(at.array)), as the coefficient vector.
tangent(q, at) == MatVec(q.array, at)

\* Quadric.contains(other): the form other^T array other / den is an integer over
\* a denominator below 10^8, so it is within 1e-8 of 0 only when it is 0.
contains(q, other) == isclose(Dot(other, MatVec(q.array, other)), 0)

\* Conic.polar(pt): Line(self.array.dot(pt.array))
polar(q, pt) == MatVec(q.array, pt)

\* The matrix m without row i and column j.
Minor(m, i, j) ==
    [r \in 1..(Len(m) - 1) |-> [c \in 1..(Len(m) - 1) |->
        m[IF r < i THEN r ELSE r + 1][IF c < j THEN c ELSE c + 1]]]

Det2(m) == m[1][1] * m[2][2] - m[1][2] * m[2][1]

Det3(m) ==
    m[1][1] * (m[2][2] * m[3][3] - m[2][3] * m[3][2])
    - m[1][2] * (m[2][1] * m[3][3] - m[2][3] * m[3][1])
    + m[1][3] * (m[2][1] * m[3][2] - m[2][2] * m[3][1])

\* np.linalg.det, exact: the cofactor expansion along the first row.
Det(m) ==
    CASE Len(m) = 1 -> m[1][1]
      [] Len(m) = 2 -> Det2(m)
      [] Len(m) = 3 -> Det3(m)
      [] Len(m) = 4 -> m[1][1] * Det3(Minor(m, 1, 1)) - m[1][2] * Det3(Minor(m, 1, 2))
                       + m[1][3] * Det3(Minor(m, 1, 3)) - m[1][4] * Det3(Minor(m, 1, 4))

\* Quadric.is_degenerate
is_degenerate(q) == isclose(Det(q.array), 0)

Adjugate(m) ==
    [i \in 1..Len(m) |-> [j \in 1..Len(m) |->
        (IF (i + j) % 2 = 0 THEN 1 ELSE 0 - 1) * Det(Minor(m, j, i))]]

MatScale(k, m) == [i \in 1..Len(m) |-> Scale(k, m[i])]

MatMul(a, b) == [i \in 1..Len(a) |-> [j \in 1..Len(b[1]) |-> Dot(a[i], Column(b, j))]]

Identity(n) == [i \in 1..n |-> [j \in 1..n |-> IF i = j THEN 1 ELSE 0]]

\* np.linalg.inv of the invertible matrix m / den, as <<numerators, denominator>>:
\* den * adj(m) / det(m).
inv(m, den) == <<MatScale(den, Adjugate(m)), Det(m)>>

\* The classes whose __init__ is Quadric.__init__(matrix, is_dual): Conic, Cone and
\* Cylinder define none.  Ellipse, Circle and Sphere define __init__(center, ...)
\* without an is_dual parameter.
MatrixClasses == {"Quadric", "Conic", "Cone", "Cylinder"}

\* A call that raises returns the exception as its value.
Raised(e) == [raised |-> e]

IsRaised(v) == "raised" \in DOMAIN v

TypeError == Raised("TypeError")

\* type(self)(matrix, is_dual=is_dual)
Construct(cls, matrix, den, is_dual) ==
    IF cls \in MatrixClasses THEN QuadricOver(cls, matrix, den, is_dual) ELSE TypeError

\* Quadric.dual
dual(q) ==
    LET i == inv(q.array, q.den)
    IN  Construct(q.cls, i[1], i[2], ~q.is_dual)

\* Point.normalized_array as <<numerators, denominator>>: the array divided by
\* its last coordinate, and the array itself for a point at infinity.
normalized_array(p) ==
    IF isclose(p[Len(p)], 0) THEN <<p, 1>> ELSE <<p, p[Len(p)]>>

\* np.linalg.det([a, b, c])
Det3Rows(a, b, c) == Det3(<<a, b, c>>)

MatSub(a, b) == [i \in 1..Len(a) |-> [j \in 1..Len(a[i]) |-> a[i][j] - b[i][j]]]

\* Lines 365-370 of Conic.from_points on the normalized arrays a = na[1]/na[2],
\* ..., e = ne[1]/ne[2]: both products of the difference have the denominator
\* (da db dc dd de)^2.
ConicThrough(cls, na, nb, nc, nd, ne) ==
    LET a == na[1]
        b == nb[1]
        c == nc[1]
        d == nd[1]
        e == ne[1]
        ace == Det3Rows(a, c, e)
        bde == Det3Rows(b, d, e)
        ade == Det3Rows(a, d, e)
        bce == Det3Rows(b, c, e)
        m == MatSub(MatScale(ace * bde, Outer(Cross(a, d), Cross(b, c))),
                    MatScale(ade * bce, Outer(Cross(a, c), Cross(b, d))))
        den == na[2] * nb[2] * nc[2] * nd[2] * ne[2]
    IN  QuadricOver(cls, MatAdd(m, Transpose(m)), den * den, FALSE)

\* A slip: the two degenerate conics are added instead of subtracted.
from_points_added(cls, pa, pb, pc_, pd, pe) ==
    LET a == normalized_array(pa)[1]
        b == normalized_array(pb)[1]
        c == normalized_array(pc_)[1]
        d == normalized_array(pd)[1]
        e == normalized_array(pe)[1]
        m == MatAdd(MatScale(Det3Rows(a, c, e) * Det3Rows(b, d, e), Outer(Cross(a, d), Cross(b, c))),
                    MatScale(Det3Rows(a, d, e) * Det3Rows(b, c, e), Outer(Cross(a, c), Cross(b, d))))
    IN  QuadricOver(cls, MatAdd(m, Transpose(m)), 1, FALSE)

\* Conic.from_points(a, b, c, d, e)
from_points(cls, pa, pb, pc_, pd, pe) ==
    ConicThrough(cls, normalized_array(pa), normalized_array(pb), normalized_array(pc_),
                 normalized_array(pd), normalized_array(pe))

\* tangent.contains(p) for a line and a point of the plane.
line_contains(l, pt) == isclose(Dot(l, pt), 0)

ValueError == Raised("ValueError")

\* A slip: the error is raised only when all four points lie on the tangent.
from_tangent_check_all(t, a, b, c, d) ==
    \A pt \in {a, b, c, d} : line_contains(t, pt)

\* Line 406 of Conic.from_tangent: any(tangent.contains(p) for p in [a, b, c, d])
from_tangent_check(t, a, b, c, d) ==
    \E pt \in {a, b, c, d} : line_contains(t, pt)

\* The same rational vector v[1]/v[2] in lowest terms.
LowestTerms(v) ==
    LET g == GCD(GCD(GCD(v[1][1], v[1][2]), v[1][3]), v[2])
    IN  IF g = 0 THEN v ELSE <<[i \in 1..3 |-> v[1][i] \div g], v[2] \div g>>

\* Line(a, c).meet(tangent).normalized_array
MeetOfJoin(a, c, t) == LowestTerms(normalized_array(Cross(Cross(a, c), t)))

\* The rational n/d (d # 0) is the square of a rational: in lowest terms n'/d',
\* n' d' is a perfect square.
IsSquareRat(n, d) ==
    LET g == GCD(n, d)
        x == (n \div g) * (d \div g)
    IN  x >= 0 /\ IsSquare(x)

\* csqrt(n/d) for such a rational, as <<numerator, denominator>>.
RootRat(n, d) ==
    LET g == GCD(n, d)
    IN  <<ExactRoot((n \div g) * (d \div g)), Abs(d \div g)>>

\* Lines 409-428 of Conic.from_tangent, for the point o = tangent.general_point.
\* With a1 = A1/d1, a2 = A2/d2, b1 = B1/e1, b2 = B2/e2 the radicands are
\* P = det(o,A2,B1) det(o,A2,B2) / (d2^2 e1 e2) and
\* Q = det(o,A1,B1) det(o,A1,B2) / (d1^2 e1 e2).  Where both are squares of
\* rationals the fifth point x = c1 a1 + c2 a2 is rational, from_points(a,b,c,d,x)
\* is real and is the conic returned; elsewhere the roots are irrational or
\* imaginary and the conic is left unevaluated.
from_tangent_construct(cls, t, a, b, c, d, o) ==
    LET a1 == MeetOfJoin(a, c, t)
        a2 == MeetOfJoin(b, d, t)
        b1 == MeetOfJoin(a, b, t)
        b2 == MeetOfJoin(c, d, t)
        a2b1 == Det3Rows(o, a2[1], b1[1])
        a2b2 == Det3Rows(o, a2[1], b2[1])
        a1b1 == Det3Rows(o, a1[1], b1[1])
        a1b2 == Det3Rows(o, a1[1], b2[1])
        pn == a2b1 * a2b2
        pd == a2[2] * a2[2] * b1[2] * b2[2]
        qn == a1b1 * a1b2
        qd == a1[2] * a1[2] * b1[2] * b2[2]
    IN  IF IsSquareRat(pn, pd) /\ IsSquareRat(qn, qd)
        THEN LET c1 == RootRat(pn, pd)
                 c2 == RootRat(qn, qd)
                 xn == [i \in 1..3 |-> c1[1] * c2[2] * a2[2] * a1[1][i]
                                       + c2[1] * c1[2] * a1[2] * a2[1][i]]
                 xd == c1[2] * a1[2] * c2[2] * a2[2]
                 x == IF isclose(xn[3], 0) THEN <<xn, xd>> ELSE <<xn, xn[3]>>
             IN  [conic |-> ConicThrough(cls, normalized_array(a), normalized_array(b),
                                         normalized_array(c), normalized_array(d),
                                         LowestTerms(x)),
                  x |-> xn]
        ELSE [unevaluated |-> <<a1, a2>>]

\* Ellipse.__init__(center, hradius, vradius) for a center (cx, cy, 1) with integer
\* coordinates; Circle.__init__(center, radius) is Ellipse.__init__(center, radius,
\* radius).
Ellipse(cls, center, hradius, vradius) ==
    LET r == <<vradius * vradius, hradius * hradius, 1>>
        c == [i \in 1..3 |-> 0 - center[i]]
        m == [i \in 1..3 |-> [j \in 1..3 |->
                 IF i = 3 /\ j = 3
                 THEN SumSeq([k \in 1..3 |-> r[k] * c[k] * c[k]]) - (r[1] * r[2] + 1)
                 ELSE IF i = 3 THEN c[j] * r[j]
                 ELSE IF j = 3 THEN c[i] * r[i]
                 ELSE IF i = j THEN r[i] ELSE 0]]
    IN  Quadric(cls, m, FALSE)

Circle(center, radius) == Ellipse("Circle", center, radius, radius)

\* Circle.radius as <<numerator, denominator>>: with c = array[:2, 2] / array[0, 0]
\* the radicand c.dot(c) - array[2, 2] / array[0, 0] is
\* (array[0,2]^2 + array[1,2]^2 - array[2,2] array[0,0]) / array[0,0]^2.
Circle_radius(q) ==
    LET m == q.array
    IN  << ExactRoot(m[1][3] * m[1][3] + m[2][3] * m[2][3] - m[3][3] * m[1][1]),
           ExactRoot(m[1][1] * m[1][1]) >>

\* Circle.area(): 2*np.pi*self.radius**2, as the rational factor of pi.
Circle_area(q) ==
    LET r == Circle_radius(q)
    IN  [pi_times |-> <<2 * r[1] * r[1], r[2] * r[2]>>]

\* Sphere.__init__(center, radius) for a center (cx, cy, cz, 1): the identity with
\* the last row and column set to -center and the corner to |center|^2 - radius^2.
Sphere(center, radius) ==
    LET c == [i \in 1..4 |-> 0 - center[i]]
        m == [i \in 1..4 |-> [j \in 1..4 |->
                 IF i = 4 /\ j = 4 THEN c[1] * c[1] + c[2] * c[2] + c[3] * c[3] - radius * radius
                 ELSE IF i = 4 THEN c[j]
                 ELSE IF j = 4 THEN c[i]
                 ELSE IF i = j THEN 1 ELSE 0]]
    IN  Quadric("Sphere", m, FALSE)

(***************************************************************************)
(* Point, Line and Plane (point.py) are used by curve.py through meet, join,*)
(* contains, == and normalized_array.  A point or a hyperplane is its      *)
(* coordinate vector.  A line of the plane is a vector of 3 coefficients;  *)
(* a line of 3-space is kept as two points a, b that span it, and stands   *)
(* for the antisymmetric tensor a b^T - b a^T.                             *)
(***************************************************************************)
Line3(a, b) == [a |-> a, b |-> b]

IsLine3(l) == DOMAIN l = {"a", "b"}

\* hyperplane.meet(line): the point common to both.
meet(h, l) ==
    IF IsLine3(l)
    THEN [i \in 1..4 |-> Dot(h, l.b) * l.a[i] - Dot(h, l.a) * l.b[i]]
    ELSE Cross(h, l)

\* point.join(line) of a dual quadric's component: kept unevaluated.
join(p, l) == [join |-> <<p, l>>]

\* ProjectiveElement.__eq__: equal up to a scalar factor, by the Cauchy-Schwarz
\* test of is_multiple.
ProjectiveEq(p, q) == is_multiple(p, q)

\* The hyperplane h contains the line l.
LiesIn(l, h) ==
    IF IsLine3(l) THEN Dot(h, l.a) = 0 /\ Dot(h, l.b) = 0 ELSE IsZero(Cross(h, l))

\* Lines 306-309 and 318-321 for the components c: p and q, as one point when
\* p == q.
meets(q, c, other) ==
    LET p == IF q.is_dual THEN join(c.e, other) ELSE meet(c.e, other)
        r == IF q.is_dual THEN join(c.f, other) ELSE meet(c.f, other)
    IN  IF ProjectiveEq(p, r) THEN <<p>> ELSE <<p, r>>

\* Quadric.intersect(other) for a Line other and a degenerate quadric (lines
\* 303-309 and 318-321): the lists it can return.
intersect_line(q, other) == { meets(q, c, other) : c \in components(q) }

(***************************************************************************)
(* The state machine.  A behaviour is one call: the initial state holds    *)
(* the operation and its arguments, the call's action computes the result. *)
(***************************************************************************)
\* No value yet: the call has not returned.
Pending == [pending |-> TRUE]

\* The local variables of a call that is modelled in one step.
NoLocals == [none |-> TRUE]

InitIsMultiple ==
    /\ op = "is_multiple"
    /\ \E n \in {2, 3} : \E a \in Vectors(n) :
         \E b \in Vectors(n) \cup {Scale(k, a) : k \in Scalars} :
             args = [a |-> a, b |-> b]
    /\ res = Pending
    /\ pc = "call"
    /\ loc = NoLocals

CallIsMultiple ==
    /\ pc = "call"
    /\ op = "is_multiple"
    /\ res' = is_multiple(args.a, args.b)
    /\ pc' = "done"
    /\ UNCHANGED <<op, args, loc>>

SpecIsMultiple == InitIsMultiple /\ [][CallIsMultiple]_vars

\* Hyperplanes of 3-space used as the second component.
Planes4 ==
    { <<1, 0, 0, 0>>, <<0, 0, 0, 1>>, <<1, 1, 1, 1>>, <<1, 0 - 1, 0, 0>>,
      <<0, 1, 0 - 1, 1>>, <<0 - 1, 0, 1, 1>> }

\* One representative of every line of the plane: the first non-zero coefficient
\* is positive.
Lines2 ==
    { l \in NonZeroVectors(3) :
        l[1] > 0 \/ (l[1] = 0 /\ l[2] > 0) \/ (l[1] = 0 /\ l[2] = 0 /\ l[3] > 0) }

InitComponents ==
    /\ op = "components"
    /\ \/ \E u \in NonZeroVectors(3), v \in NonZeroVectors(3) :
            args = [u |-> u, v |-> v, q |-> from_planes("Quadric", u, v)]
       \/ \E u \in NonZeroVectors(4), v \in Planes4 :
            args = [u |-> u, v |-> v, q |-> from_planes("Quadric", u, v)]
    /\ res = Pending
    /\ pc = "call"
    /\ loc = NoLocals

CallComponents ==
    /\ pc = "call"
    /\ op = "components"
    /\ \E c \in components(args.q) : res' = c
    /\ pc' = "done"
    /\ UNCHANGED <<op, args, loc>>

SpecComponents == InitComponents /\ [][CallComponents]_vars

\* The lines of 3-space of the model: those through two of these points.
SpanPoints == { <<1, 0, 0, 0>>, <<0, 1, 0, 0>>, <<0, 0, 1, 0>>, <<0, 0, 0, 1>>, <<1, 1, 1, 1>> }

Lines3 == { Line3(<<1, 0, 0, 0>>, b) : b \in SpanPoints \ {<<1, 0, 0, 0>>} } \cup
          { Line3(<<1, 1, 1, 1>>, b) : b \in SpanPoints \ {<<1, 0, 0, 0>>, <<1, 1, 1, 1>>} }

\* An operand of intersect: its class and its array.
Operand(type, array) == [type |-> type, array |-> array]

InitIntersectLine ==
    /\ op = "intersect"
    /\ \/ \E e \in NonZeroVectors(3), f \in NonZeroVectors(3), l \in Lines2 :
            args = [e |-> e, f |-> f, other |-> Operand("Line", l),
                    q |-> from_planes("Quadric", e, f)]
       \/ \E e \in NonZeroVectors(4), f \in Planes4, l \in Lines3 :
            args = [e |-> e, f |-> f, other |-> Operand("Line", l),
                    q |-> from_planes("Quadric", e, f)]
    /\ res = Pending
    /\ pc = "call"
    /\ loc = NoLocals

\* Quadric.intersect(other) for a Line other and a degenerate quadric: the branch
\* of lines 303-309, then lines 318-321.
CallIntersectLine ==
    /\ pc = "call"
    /\ op = "intersect"
    /\ args.other.type = "Line"
    /\ is_degenerate(args.q)
    /\ \E r \in intersect_line(args.q, args.other.array) : res' = r
    /\ pc' = "done"
    /\ UNCHANGED <<op, args, loc>>

SpecIntersectLine == InitIntersectLine /\ [][CallIntersectLine]_vars

Signs == {0 - 1, 0, 1}

\* Symmetric 3x3 matrices: the diagonal within the coordinate bound.
SymMatrices3 ==
    { << <<d[1], o[1], o[2]>>, <<o[1], d[2], o[3]>>, <<o[2], o[3], d[3]>> >> :
        d \in [1..3 -> Coord], o \in [1..3 -> Signs] }

Points3 ==
    { l \in NonZeroVectors(3) :
        l[3] > 0 \/ (l[3] = 0 /\ l[2] > 0) \/ (l[3] = 0 /\ l[2] = 0 /\ l[1] > 0) }

Points4 == [1..4 -> Signs] \ {ZeroVec(4)}

InitTangent ==
    /\ op = "tangent"
    /\ \/ \E m \in SymMatrices3, cls \in {"Quadric", "Conic"}, p \in Points3 :
            args = [q |-> Quadric(cls, m, FALSE), at |-> p]
       \/ \E c \in [1..3 -> Signs], r \in 1..MaxScalar, p \in Points4 :
            args = [q |-> Sphere(<<c[1], c[2], c[3], 1>>, r), at |-> p]
    /\ res = Pending
    /\ pc = "call"
    /\ loc = NoLocals

\* Quadric.tangent(at).
CallQuadricTangent ==
    /\ pc = "call"
    /\ op = "tangent"
    /\ args.q.cls # "Conic"
    /\ res' = tangent(args.q, args.at)
    /\ pc' = "done"
    /\ UNCHANGED <<op, args, loc>>

\* Conic.tangent(at) at a point of the conic (lines 503-504): the polar line.
CallConicTangentOn ==
    /\ pc = "call"
    /\ op = "tangent"
    /\ args.q.cls = "Conic"
    /\ contains(args.q, args.at)
    /\ res' = polar(args.q, args.at)
    /\ pc' = "done"
    /\ UNCHANGED <<op, args, loc>>

SpecTangent == InitTangent /\ [][CallQuadricTangent \/ CallConicTangentOn]_vars

Centers2 == { <<c[1], c[2], 1>> : c \in [1..2 -> Signs] }

Centers3 == { <<c[1], c[2], c[3], 1>> : c \in [1..3 -> Signs] }

Radii == 1..MaxScalar

InitDual ==
    /\ op = "dual"
    /\ \/ \E m \in SymMatrices3, cls \in {"Quadric", "Conic"}, d \in BOOLEAN :
            /\ Det(m) # 0
            /\ args = [q |-> Quadric(cls, m, d)]
       \/ \E c \in Centers2, r \in Radii : args = [q |-> Circle(c, r)]
       \/ \E c \in Centers2, h \in Radii, v \in Radii :
            args = [q |-> Ellipse("Ellipse", c, h, v)]
       \/ \E c \in Centers3, r \in Radii : args = [q |-> Sphere(c, r)]
    /\ res = Pending
    /\ pc = "call"
    /\ loc = NoLocals

\* q.dual
CallDual ==
    /\ pc = "call"
    /\ op = "dual"
    /\ ~is_degenerate(args.q)
    /\ res' = <<dual(args.q)>>
    /\ pc' = IF IsRaised(dual(args.q)) THEN "raised" ELSE "dual"
    /\ UNCHANGED <<op, args, loc>>

\* q.dual.dual: the dual of the value the first call returned.
CallDualOfDual ==
    /\ pc = "dual"
    /\ op = "dual"
    /\ res' = <<res[1], dual(res[1])>>
    /\ pc' = "done"
    /\ UNCHANGED <<op, args, loc>>

SpecDual == InitDual /\ [][CallDual \/ CallDualOfDual]_vars

\* Points of the unit circle, in homogeneous coordinates.
UnitCirclePoints ==
    { <<1, 0, 1>>, <<0 - 1, 0, 1>>, <<0, 1, 1>>, <<0, 0 - 2, 2>>, <<3, 4, 5>>, <<0 - 4, 3, 5>> }

\* The points Conic.from_points is called with: points of the unit circle, a
\* point off it and a point at infinity.
ConicPoints == UnitCirclePoints \cup { <<1, 1, 1>>, <<1, 0, 0>> }

InitFromPoints ==
    /\ op = "from_points"
    /\ \E a \in ConicPoints, b \in ConicPoints, c \in ConicPoints, d \in ConicPoints,
          e \in ConicPoints :
         args = <<a, b, c, d, e>>
    /\ res = Pending
    /\ pc = "call"
    /\ loc = NoLocals

CallFromPoints ==
    /\ pc = "call"
    /\ op = "from_points"
    /\ res' = from_points("Conic", args[1], args[2], args[3], args[4], args[5])
    /\ pc' = "done"
    /\ UNCHANGED <<op, args, loc>>

SpecFromPoints == InitFromPoints /\ [][CallFromPoints]_vars

MaxCenter == 3

CircleCenters == { <<x, y, 1>> : x \in (0 - MaxCenter)..MaxCenter, y \in (0 - MaxCenter)..MaxCenter }

InitArea ==
    /\ op = "area"
    /\ \E c \in CircleCenters, r \in Radii : args = [center |-> c, radius |-> r, q |-> Circle(c, r)]
    /\ res = Pending
    /\ pc = "call"
    /\ loc = NoLocals

CallArea ==
    /\ pc = "call"
    /\ op = "area"
    /\ res' = [radius |-> Circle_radius(args.q), area |-> Circle_area(args.q)]
    /\ pc' = "done"
    /\ UNCHANGED <<op, args, loc>>

SpecArea == InitArea /\ [][CallArea]_vars

\* The points Conic.from_tangent is called with.
TangentPoints ==
    { <<1, 0, 1>>, <<0, 1, 1>>, <<0 - 1, 0, 1>>, <<0, 0 - 1, 1>>, <<1, 1, 1>>, <<0 - 2, 2, 0 - 2>> }

\* tangent.general_point is some point of the plane; which one is left open.
GeneralPoints == { <<0, 0, 1>>, <<0, 1, 0>>, <<1, 0, 0>> }

InitFromTangent ==
    /\ op = "from_tangent"
    /\ \E t \in Lines2, a \in TangentPoints, b \in TangentPoints, c \in TangentPoints,
          d \in TangentPoints :
         args = [tangent |-> t, a |-> a, b |-> b, c |-> c, d |-> d]
    /\ res = Pending
    /\ pc = "call"
    /\ loc = NoLocals

\* Lines 406-407: the test of the four points, and the raise.
FromTangentCheck ==
    /\ pc = "call"
    /\ op = "from_tangent"
    /\ IF from_tangent_check(args.tangent, args.a, args.b, args.c, args.d)
       THEN res' = ValueError /\ pc' = "raised"
       ELSE res' = Pending /\ pc' = "construct"
    /\ UNCHANGED <<op, args, loc>>

\* Lines 409-428: the construction, reached when nothing was raised.
FromTangentConstruct ==
    /\ pc = "construct"
    /\ op = "from_tangent"
    /\ \E o \in GeneralPoints :
         res' = from_tangent_construct("Conic", args.tangent, args.a, args.b, args.c, args.d, o)
    /\ pc' = "done"
    /\ UNCHANGED <<op, args, loc>>

SpecFromTangent == InitFromTangent /\ [][FromTangentCheck \/ FromTangentConstruct]_vars

(***************************************************************************)
(* AlgebraicCurve.intersect and the operand dispatch of Quadric.intersect. *)
(***************************************************************************)
\* isinstance(other, cls): the classes of curve.py and point.py below cls.
SubclassesOf(cls) ==
    CASE cls = "Quadric" ->
            {"Quadric", "Conic", "Ellipse", "Circle", "Sphere", "Cone", "Cylinder"}
      [] OTHER -> {cls}

isinstance(other, cls) == other.type \in SubclassesOf(cls)

NotImplementedError == Raised("NotImplementedError")

\* The value of a call that falls off the end of its body.
None == [none |-> TRUE]

\* complex(x): a complex number is the pair of its real and imaginary part.
complex(re) == <<re, 0>>

\* What sympy.solve_poly_system gives back for the system of one chart: the
\* list of its solutions, None for a system without solutions, or
\* NotImplementedError for a system that is not zero-dimensional.
Solved(s) == [solutions |-> s]

IsSolved(x) == "solutions" \in DOMAIN x

\* The values of a solution's coordinates: 0, 1, -1 and i.
SolutionValues == { <<0, 0>>, <<1, 0>>, <<0 - 1, 0>>, <<0, 1>> }

SolutionTuples == { <<x, y>> : x \in SolutionValues, y \in SolutionValues }

\* One or two affine solutions.
AffineSolutions ==
    { {s, t} : s \in SolutionTuples, t \in SolutionTuples }

Origin == <<complex(0), complex(0)>>

\* The outcomes of the solver on the charts z = 0 and z = 1.  At z = 0 the
\* polynomials are homogeneous in the two remaining symbols: the zero tuple
\* solves the system, and it is the only solution unless the two curves meet at
\* infinity, where the solutions fill a line and the system is not
\* zero-dimensional.  At z = 1 the system has finitely many solutions, or none
\* (the curves meet only at infinity), or the curves share a component.
SolverOutcomes ==
    { <<Solved({Origin}), Solved(s)>> : s \in AffineSolutions } \cup
    { <<NotImplementedError, Solved(s)>> : s \in AffineSolutions } \cup
    { <<NotImplementedError, None>>,
      <<NotImplementedError, NotImplementedError>> }

\* The arrays of the operands handed to intersect, by class.
CurveOperands ==
    { Operand("Line", l) : l \in Lines2 } \cup
    { Operand("AlgebraicCurve", l) : l \in Lines2 }

OtherOperands ==
    { Operand("Point", p) : p \in Points3 } \cup
    { Operand("Plane", e) : e \in Planes4 }

QuadricOperands ==
    { Operand("Circle", Circle(c, r).array) : c \in Centers2, r \in Radii }

\* The charts of the loop of AlgebraicCurve.intersect, in order.
Charts == <<0, 1>>

\* tuple(complex(x) for x in cor) + (z,)
ChartPoint(cor, z) == Append(cor, complex(z))

\* np.real_if_close(x): the array becomes a float array when every imaginary part
\* vanishes and stays complex otherwise.  An array is its dtype and its values,
\* each value with its real and imaginary part.
real_if_close(x) ==
    [dtype |-> IF \A i \in 1..Len(x) : x[i][2] = 0 THEN "float" ELSE "complex",
     array |-> x]

\* Tensor(x) != 0
NonZeroTensor(x) == \E i \in 1..Len(x) : x[i] # complex(0)

\* [Point(np.real_if_close(x)) for x in sol if Tensor(x) != 0], as a set.
CurveIntersectResult(sol) ==
    { real_if_close(x) : x \in { y \in sol : NonZeroTensor(y) } }

InitCurveIntersect ==
    /\ op = "curve_intersect"
    /\ \/ \E other \in CurveOperands, solver \in SolverOutcomes :
            args = [other |-> other, solver |-> solver]
       \/ \E other \in OtherOperands :
            args = [other |-> other, solver |-> <<None, None>>]
       \/ \E other \in QuadricOperands :
            args = [other |-> other, solver |-> <<None, None>>]
    /\ res = Pending
    /\ pc = "call"
    /\ loc = NoLocals

\* AlgebraicCurve.intersect up to the loop: the dispatch on the operand's class.
CurveIntersectDispatch ==
    /\ pc = "call"
    /\ op = "curve_intersect"
    /\ IF isinstance(args.other, "Line") \/ isinstance(args.other, "AlgebraicCurve")
       THEN /\ pc' = "chart"
            /\ loc' = [sol |-> {}, charts |-> Charts, tried |-> <<>>]
            /\ res' = res
       ELSE /\ pc' = "raised"
            /\ res' = NotImplementedError
            /\ loc' = loc
    /\ UNCHANGED <<op, args>>

\* One iteration of the loop over the charts.  tried records the charts the
\* solver has been called on.
CurveIntersectChart ==
    /\ pc = "chart"
    /\ loc.charts # <<>>
    /\ LET z == Head(loc.charts)
           x == args.solver[z + 1]
           tried == Append(loc.tried, z)
       IN  CASE IsSolved(x) ->
                  /\ loc' = [sol |-> loc.sol \cup { ChartPoint(cor, z) : cor \in x.solutions },
                             charts |-> Tail(loc.charts), tried |-> tried]
                  /\ UNCHANGED <<res, pc>>
             [] x = NotImplementedError ->
                  /\ loc' = [sol |-> loc.sol, charts |-> Tail(loc.charts), tried |-> tried]
                  /\ UNCHANGED <<res, pc>>
             [] OTHER ->
                  \* for cor in None
                  /\ loc' = [sol |-> loc.sol, charts |-> loc.charts, tried |-> tried]
                  /\ res' = TypeError
                  /\ pc' = "raised"
    /\ UNCHANGED <<op, args>>

CurveIntersectReturn ==
    /\ pc = "chart"
    /\ loc.charts = <<>>
    /\ res' = CurveIntersectResult(loc.sol)
    /\ pc' = "done"
    /\ UNCHANGED <<op, args, loc>>

SpecCurveIntersect ==
    InitCurveIntersect /\
        [][CurveIntersectDispatch \/ CurveIntersectChart \/ CurveIntersectReturn]_vars

InitIntersectOther ==
    /\ op = "intersect"
    /\ \E c \in Centers2, r \in Radii,
          other \in OtherOperands \cup { Operand("AlgebraicCurve", l) : l \in Lines2 } :
            args = [q |-> Circle(c, r), other |-> other]
    /\ res = Pending
    /\ pc = "call"
    /\ loc = NoLocals

\* Quadric.intersect(other) for an operand that is neither a Line nor a Quadric:
\* both isinstance tests fail and the body ends.
CallIntersectOther ==
    /\ pc = "call"
    /\ op = "intersect"
    /\ ~isinstance(args.other, "Line")
    /\ ~isinstance(args.other, "Quadric")
    /\ res' = None
    /\ pc' = "done"
    /\ UNCHANGED <<op, args, loc>>

SpecIntersectOperand ==
    (InitCurveIntersect \/ InitIntersectOther) /\
        [][CurveIntersectDispatch \/ CurveIntersectChart \/ CurveIntersectReturn
            \/ CallIntersectOther]_vars

(***************************************************************************)
(* Quadric.intersect(other) for a quadric other (lines 323-337): the       *)
(* degenerate quadric whose components are intersected with self.          *)
(***************************************************************************)
RECURSIVE Pow(_, _)
Pow(b, e) == IF e = 0 THEN 1 ELSE b * Pow(b, e - 1)

\* The rows numbered by the bits of b (row i by the bit of value 2^(i-1)).
RowsOfMask(n, b) == { i \in 1..n : (b \div Pow(2, i - 1)) % 2 = 1 }

\* The matrix with the rows s of o and the other rows of m.
MixedRows(m, o, s) == [i \in 1..Len(m) |-> IF i \in s THEN o[i] ELSE m[i]]

\* The coefficient of x^k in sympy.Matrix(m + x * o).det(): the determinant is
\* linear in each row, so it is the sum of the determinants with k rows of o.
PencilCoefficient(m, o, k) ==
    LET n == Len(m)
    IN  SumSeq([b \in 1..Pow(2, n) |->
            IF Cardinality(RowsOfMask(n, b - 1)) = k
            THEN Det(MixedRows(m, o, RowsOfMask(n, b - 1)))
            ELSE 0])

\* sympy.poly(m.det(), x): all coefficients of det(m + x o), highest degree first.
PencilPolynomial(m, o) == [i \in 1..(Len(m) + 1) |-> PencilCoefficient(m, o, Len(m) + 1 - i)]

IsNonZero(c) == c # 0

\* Poly.coeffs(): the non-zero coefficients, highest degree first.
coeffs(f) == SelectSeq(f, IsNonZero)

\* d^(Len(p)-1) * p(n/d) for the coefficient list p, highest degree first.
PolyAt(p, n, d) ==
    SumSeq([i \in 1..Len(p) |-> p[i] * Pow(n, Len(p) - i) * Pow(d, i - 1)])

Divisors(k) == { x \in 1..Abs(k) : k % x = 0 }

RECURSIVE Content(_)
\* The greatest common divisor of the entries of p.
Content(p) == IF p = <<>> THEN 0 ELSE GCD(Head(p), Content(Tail(p)))

\* The rational roots n/d (in lowest terms, d > 0) of the coefficient list p,
\* whose first and last entries are not 0: with the common factor of the
\* coefficients taken out, d divides the first and n the last.
RationalRoots(p) ==
    LET g == Content(p)
        r == [i \in 1..Len(p) |-> p[i] \div g]
    IN  { t \in { <<s * n, d>> : s \in {0 - 1, 1}, n \in Divisors(r[Len(r)]), d \in Divisors(r[1]) } :
            GCD(t[1], t[2]) = 1 /\ PolyAt(r, t[1], t[2]) = 0 }

IndexError == Raised("IndexError")

\* self.array + roots[0] * other.array for roots[0] = t[1]/t[2], over t[2].
PencilMember(q, other, t) ==
    QuadricOver("Quadric", MatAdd(MatScale(t[2], q.array), MatScale(t[1], other.array)),
                t[2] * q.den, q.is_dual)

\* The quadrics of the plane and of 3-space that are intersected.
PencilConics == { Quadric("Conic", m, FALSE) : m \in SymMatrices3 }

PencilCircles == { Circle(c, r) : c \in Centers2, r \in Radii }

SphereCenters == { <<0, 0, 0, 1>>, <<1, 0, 0, 1>>, <<0, 1, 1, 1>>, <<0 - 1, 0, 1, 1>> }

PencilSpheres == { Sphere(c, r) : c \in SphereCenters, r \in Radii }

InitIntersectPencil ==
    /\ op = "intersect"
    /\ \/ \E q \in PencilConics, o \in PencilCircles \cup PencilConics :
            /\ o.cls = "Conic" => \A i \in 1..3 : \A j \in 1..3 : (i # j => o.array[i][j] = 0)
            /\ ~is_degenerate(o)
            /\ args = [q |-> q, other |-> Operand(o.cls, o.array)]
       \/ \E q \in PencilSpheres, o \in PencilSpheres :
            args = [q |-> q, other |-> Operand(o.cls, o.array)]
    /\ res = Pending
    /\ pc = "call"
    /\ loc = NoLocals

\* np.roots can return a value that is no rational number: the polynomial p has
\* an irrational or complex root, or a multiple root, which the eigenvalue
\* iteration returns only to about a root of the rounding unit.  The distinct
\* rational roots are then fewer than the degree.
HasInexactRoot(p) == Cardinality(RationalRoots(p)) < Len(p) - 1

\* Lines 323 and 327-332: other is a non-degenerate quadric.  np.roots gives the
\* roots of the polynomial with the coefficient list it is handed, in the order
\* of its eigenvalue iteration, which is not fixed here: roots[0] is any of
\* them.  A rational root is followed with its exact value (a simple root is
\* returned to within rounding); a call in which roots[0] is no rational number
\* ends in "inexact" and is not followed further.
IntersectPencil ==
    /\ pc = "call"
    /\ op = "intersect"
    /\ isinstance(args.other, "Quadric")
    /\ ~isclose(Det(args.other.array), 0)
    /\ LET f == PencilPolynomial(args.q.array, args.other.array)
           p == coeffs(f)
       IN  IF Len(p) = 1
           THEN /\ res' = IndexError
                /\ pc' = "raised"
                /\ loc' = [f |-> f]
           ELSE \/ \E t \in RationalRoots(p) :
                     /\ loc' = [f |-> f, root |-> t,
                                c |-> PencilMember(args.q, args.other, t)]
                     /\ pc' = "components"
                     /\ res' = res
                \/ /\ HasInexactRoot(p)
                   /\ pc' = "inexact"
                   /\ loc' = [f |-> f]
                   /\ res' = res
    /\ UNCHANGED <<op, args>>

SpecIntersectPencil == InitIntersectPencil /\ [][IntersectPencil]_vars

\* LeviCivitaTensor(3) contracted once with the line l: m[i][j] is the sum over k
\* of eps(i, j, k) l[k].
LeviCivitaContract(l) ==
    << <<0, l[3], 0 - l[2]>>, <<0 - l[3], 0, l[1]>>, <<l[2], 0 - l[1], 0>> >>

\* Every csqrt of Quadric.components on the integer matrix m has a rational value.
HasExactRoots(m) ==
    LET n == Len(m)
    IN  \A k \in 1..((n * (n - 1)) \div 2) : IsSquare(0 - PrincipalMinor(m, RemainingPair(n, k - 1)))

(***************************************************************************)
(* The values csqrt gives on the minors of an integer matrix are numbers   *)
(* a + b sqrt(r) with integers a, b and one integer r for the whole call:  *)
(* r = 1 where every root is rational (b = 0), r > 1 for real and r < 0    *)
(* for complex roots.  Such a number is the pair <<a, b>>, and the         *)
(* arithmetic of numpy on them is exact here.                              *)
(***************************************************************************)
Sgn(x) == IF x > 0 THEN 1 ELSE IF x < 0 THEN 0 - 1 ELSE 0

SurdAdd(x, y) == <<x[1] + y[1], x[2] + y[2]>>

SurdSub(x, y) == <<x[1] - y[1], x[2] - y[2]>>

SurdMul(r, x, y) == <<x[1] * y[1] + r * x[2] * y[2], x[1] * y[2] + x[2] * y[1]>>

\* x.conj(): the complex conjugate, which changes nothing on a real number.
SurdConj(r, x) == IF r < 0 THEN <<x[1], 0 - x[2]>> ELSE x

\* The sign of a real number a + b sqrt(r) (r > 0 or b = 0).
SurdSign(r, x) ==
    IF x[2] = 0 THEN Sgn(x[1])
    ELSE IF x[1] = 0 THEN Sgn(x[2])
    ELSE IF Sgn(x[1]) = Sgn(x[2]) THEN Sgn(x[1])
    ELSE Sgn(x[1]) * Sgn(x[1] * x[1] - r * x[2] * x[2])

\* np.abs(x) squared, a real number.
SurdAbs2(r, x) ==
    IF r < 0 THEN <<x[1] * x[1] - r * x[2] * x[2], 0>> ELSE SurdMul(r, x, x)

\* An integer array as an array of such numbers.
SurdVec(v) == [i \in 1..Len(v) |-> <<v[i], 0>>]

SurdMat(m) == [i \in 1..Len(m) |-> SurdVec(m[i])]

RECURSIVE SurdSum(_)
SurdSum(s) == IF s = <<>> THEN <<0, 0>> ELSE SurdAdd(Head(s), SurdSum(Tail(s)))

SurdDot(r, a, b) == SurdSum([i \in 1..Len(a) |-> SurdMul(r, a[i], b[i])])

SurdCross(r, a, b) ==
    << SurdSub(SurdMul(r, a[2], b[3]), SurdMul(r, a[3], b[2])),
       SurdSub(SurdMul(r, a[3], b[1]), SurdMul(r, a[1], b[3])),
       SurdSub(SurdMul(r, a[1], b[2]), SurdMul(r, a[2], b[1])) >>

SurdMatVec(r, m, v) == [i \in 1..Len(m) |-> SurdDot(r, m[i], v)]

SurdMatMul(r, a, b) ==
    [i \in 1..Len(a) |-> [j \in 1..Len(b[1]) |-> SurdDot(r, a[i], Column(b, j))]]

SurdMatAdd(a, b) == [i \in 1..Len(a) |-> [j \in 1..Len(a[i]) |-> SurdAdd(a[i][j], b[i][j])]]

SurdIsZero(a) == \A i \in 1..Len(a) : a[i] = <<0, 0>>

\* is_multiple(a, b) of utils/math.py on such arrays, conj() included.
SurdIsMultiple(r, a, b) ==
    LET ca == [i \in 1..Len(a) |-> SurdConj(r, a[i])]
        cb == [i \in 1..Len(b) |-> SurdConj(r, b[i])]
        ab == SurdDot(r, a, cb)
    IN  isclose(SurdMul(r, ab, SurdConj(r, ab)), SurdMul(r, SurdDot(r, a, ca), SurdDot(r, b, cb)))

\* n without its largest square factor, for n # 0: the r with sqrt(n) = s sqrt(r).
SquareFreePart(n) ==
    LET s == CHOOSE s \in 1..FloorSqrt(Abs(n)) :
                /\ n % (s * s) = 0
                /\ \A u \in (s + 1)..FloorSqrt(Abs(n)) : n % (u * u) # 0
    IN  n \div (s * s)

\* The radicands of Quadric.components on the integer matrix m.
NegatedMinors(m) == { 0 - PrincipalMinor(m, p) : p \in TriuPairs(Len(m)) }

\* The r other than 1 that the roots of the radicands need.
Radicals(m) == { SquareFreePart(x) : x \in NegatedMinors(m) \ {0} } \ {1}

\* All roots components takes of m are of the form a + b sqrt(r) for one r.
HasField(m) == Cardinality(Radicals(m)) <= 1

FieldOf(m) == IF Radicals(m) = {} THEN 1 ELSE CHOOSE r \in Radicals(m) : TRUE

\* The numbers a + b sqrt(r) whose square can be x.
SurdRootCandidates(r, x) ==
    IF x[2] = 0
    THEN { <<s * FloorSqrt(Abs(x[1])), 0>> : s \in {0 - 1, 1} } \cup
         { <<0, s * FloorSqrt(Abs(x[1]) \div Abs(r))>> : s \in {0 - 1, 1} }
    ELSE IF x[2] % 2 # 0
         THEN {}
         ELSE { <<(x[2] \div 2) \div (s * d), s * d>> : s \in {0 - 1, 1}, d \in Divisors(x[2] \div 2) }

\* numpy.lib.scimath.sqrt(x): the principal root, where it is a number
\* a + b sqrt(r) again, and no value otherwise.  The principal root is the one
\* that is not negative (x real) or has a positive real part; for a negative real
\* x of a real array it is the root with positive imaginary part, and in a
\* complex array the sign of the zero imaginary part of x, which rounding leaves
\* open, selects either root.
csqrt_in(r, x, real) ==
    IF r = 1
    THEN IF IsSquare(x[1]) THEN { <<FloorSqrt(x[1]), 0>> } ELSE {}
    ELSE { w \in SurdRootCandidates(r, x) :
            /\ SurdMul(r, w, w) = x
            /\ IF r > 0
               THEN SurdSign(r, w) >= 0
               ELSE w[1] > 0 \/ (w[1] = 0 /\ (w[2] >= 0 \/ ~real)) }

\* np.linalg.det(self.array[row_ind, col_ind]) for the rows and columns p.
SurdMinor(r, m, p) ==
    SurdSub(SurdMul(r, m[p[1]][p[1]], m[p[2]][p[2]]), SurdMul(r, m[p[1]][p[2]], m[p[2]][p[1]]))

\* The lists x of Quadric.components for a 3x3 matrix of such numbers.
SurdMinorRoots(r, m, real) ==
    LET roots(k) == csqrt_in(r, SurdSub(<<0, 0>>, SurdMinor(r, m, RemainingPair(3, k - 1))), real)
    IN  { <<a, b, c>> : a \in roots(1), b \in roots(2), c \in roots(3) }

\* hat_matrix(x) for three such numbers.
SurdHat(x) ==
    << << <<0, 0>>, x[3], SurdSub(<<0, 0>>, x[2]) >>,
       << SurdSub(<<0, 0>>, x[3]), <<0, 0>>, x[1] >>,
       << x[2], SurdSub(<<0, 0>>, x[1]), <<0, 0>> >> >>

\* np.unravel_index(np.abs(t).argmax(), t.shape): any position of an entry of the
\* largest absolute value.
SurdArgMaxAbs(r, t) ==
    LET abs2 == [i \in (1..Len(t)) \X (1..Len(t)) |-> SurdAbs2(r, t[i[1]][i[2]])]
    IN  { i \in DOMAIN abs2 :
            \A j \in DOMAIN abs2 : SurdSign(r, SurdSub(abs2[i], abs2[j])) >= 0 }

\* Lines 281-285 for the matrix t: a row and a column of it.
RowAndColumn(r, t, type, real) ==
    { [type |-> type, rad |-> r, real |-> real, e |-> Row(t, i[1]), f |-> Column(t, i[2])] :
        i \in SurdArgMaxAbs(r, t) }

\* Quadric.components for a 3x3 matrix m of numbers a + b sqrt(r): the pairs it
\* can return; none where a root is no such number.
components_in(r, m, type, real) ==
    UNION { RowAndColumn(r, SurdMatAdd(m, SurdHat(x)), type, real) :
            x \in SurdMinorRoots(r, m, real) }

\* LeviCivitaTensor(3) contracted once with a line l of such numbers.
SurdLeviCivita(l) ==
    << << <<0, 0>>, l[3], SurdSub(<<0, 0>>, l[2]) >>,
       << SurdSub(<<0, 0>>, l[3]), <<0, 0>>, l[1] >>,
       << l[2], SurdSub(<<0, 0>>, l[1]), <<0, 0>> >> >>

\* A Line operand with coefficients a + b sqrt(r); real is its dtype.
LineOperand(r, array, real) == [type |-> "Line", array |-> array, rad |-> r, real |-> real]

\* The operand that a component is.
ComponentOperand(c, array) ==
    IF c.type = "Line" THEN LineOperand(c.rad, array, c.real) ELSE Operand(c.type, array)

\* Lines 318-321.
OneOrTwo(r, p, q) == IF SurdIsMultiple(r, p, q) THEN <<p>> ELSE <<p, q>>

\* Quadric.intersect(other) for a line other of the plane, lines 303-321, with
\* numbers a + b sqrt(r): the lists it can return.
intersect_line_in(r, q, other) ==
    IF is_degenerate(q)
    THEN { OneOrTwo(r, IF q.is_dual THEN join(c.e, other.array) ELSE SurdCross(r, c.e, other.array),
                       IF q.is_dual THEN join(c.f, other.array) ELSE SurdCross(r, c.f, other.array)) :
            c \in components_in(r, SurdMat(q.array), ComponentType(q), other.real) }
    ELSE LET eps == SurdLeviCivita(other.array)
             b == SurdMatMul(r, SurdMatMul(r, Transpose(eps), SurdMat(q.array)), eps)
         IN  { OneOrTwo(r, c.e, c.f) :
                c \in components_in(r, b, IF q.is_dual THEN "Line" ELSE "Point", other.real) }

\* A returned list of points with coordinates a + b sqrt(r).
PointList(r, s) == [points |-> s, rad |-> r]

IsPointList(x) == "points" \in DOMAIN x

\* A value that is not computed: its coordinates are not of the form
\* a + b sqrt(r) for one r.
Unevaluated == [unevaluated |-> TRUE]

\* The integer matrix whose components the Line branch takes for a line with
\* integer coefficients l.
DecomposedMatrix(q, l) ==
    IF is_degenerate(q)
    THEN q.array
    ELSE MatMul(MatMul(Transpose(LeviCivitaContract(l)), q.array), LeviCivitaContract(l))

\* Quadric.intersect(other) for an operand of the plane that is not a quadric:
\* the values it can return.  The Line branch (lines 303-321), and no branch for
\* another operand.
intersect_linear(q, other) ==
    IF isinstance(other, "Line")
    THEN LET l == [i \in 1..3 |-> other.array[i][1]]
             m == DecomposedMatrix(q, l)
             r == IF other.rad # 1 THEN other.rad ELSE FieldOf(m)
             lists == intersect_line_in(r, q, other)
         IN  IF other.rad = 1 /\ ~HasField(m)
             THEN { Unevaluated }
             ELSE IF lists = {}
                  THEN { Unevaluated }
                  ELSE { PointList(r, s) : s \in lists }
    ELSE { None }

\* x in result, for points: == is equality up to a scalar factor.
InList(r, x, s) == \E i \in 1..Len(s) : SurdIsMultiple(r, x, s[i])

\* [x for x in s if x not in result]
RECURSIVE NotIn(_, _, _)
NotIn(r, s, result) ==
    IF s = <<>> THEN <<>>
    ELSE IF InList(r, Head(s), result)
         THEN NotIn(r, Tail(s), result)
         ELSE <<Head(s)>> \o NotIn(r, Tail(s), result)

\* result = self.intersect(e); result += [x for x in self.intersect(f) if x not in result]
collect(r, r1, r2) == r1 \o NotIn(r, r2, r1)

\* The conics that are intersected: circles and pairs of these lines.
PairLines ==
    { <<1, 0, 0>>, <<0, 1, 0>>, <<0, 0, 1>>, <<1, 1, 0>>, <<1, 0, 1>>, <<0, 1, 1>>,
      <<1, 1, 1>>, <<1, 0 - 1, 0>>, <<1, 0, 0 - 1>> }

LinePairs == { from_planes("Conic", e, f) : e \in PairLines, f \in PairLines }

PlanePairs == { from_planes("Quadric", e, f) : e \in Planes4, f \in Planes4 }

UnitCircles == { Circle(c, 1) : c \in Centers2 }

DualConics ==
    { Quadric("Conic", m, TRUE) :
        m \in { Outer(p, p) : p \in Points3 } \cup { Circle(c, 1).array : c \in Centers2 } }

InitIntersectQuadric ==
    /\ op = "intersect"
    /\ \/ \E q \in UnitCircles \cup LinePairs, o \in UnitCircles \cup LinePairs :
            args = [q |-> q, other |-> Operand(o.cls, o.array)]
       \/ \E q \in PencilSpheres, o \in PencilSpheres \cup PlanePairs :
            args = [q |-> q, other |-> Operand(o.cls, o.array)]
       \/ \E q \in DualConics, o \in DualConics :
            args = [q |-> q, other |-> Operand(o.cls, o.array)]
    /\ res = Pending
    /\ pc = "call"
    /\ loc = NoLocals

\* Lines 323-325: other is a degenerate quadric, which is decomposed itself.  In
\* the calls of the model other has the duality of self.
IntersectDegenerate ==
    /\ pc = "call"
    /\ op = "intersect"
    /\ isinstance(args.other, "Quadric")
    /\ isclose(Det(args.other.array), 0)
    /\ loc' = [c |-> Quadric(args.other.type, args.other.array, args.q.is_dual)]
    /\ pc' = "components"
    /\ UNCHANGED <<op, args, res>>

\* The array that is decomposed is real: it is other's, or self.array +
\* roots[0] * other.array for roots that np.roots returns as a real array, which
\* it does not when one of them is complex.
DecomposedIsReal == "f" \notin DOMAIN loc \/ ~HasInexactRoot(coeffs(loc.f))

\* e, f = other.components or e, f = c.components (lines 325 and 333).  Planes and
\* points are followed by their class alone where their coordinates are not
\* rational; lines are followed where their coefficients are numbers
\* a + b sqrt(r) for one r, and not after a roots[0] that is no rational number.
IntersectComponents ==
    /\ pc \in {"components", "inexact"}
    /\ op = "intersect"
    /\ isinstance(args.other, "Quadric")
    /\ IF ComponentType(args.q) # "Line"
       THEN /\ pc' = "collect"
            /\ IF pc = "components" /\ HasExactRoots(loc.c.array)
               THEN \E c \in components(loc.c) : loc' = [c |-> loc.c, components |-> c]
               ELSE loc' = [components |-> [type |-> ComponentType(args.q),
                                            e |-> Unevaluated, f |-> Unevaluated]]
       ELSE IF pc = "inexact" \/ ~HasField(loc.c.array)
            THEN /\ pc' = "unevaluated"
                 /\ loc' = loc
            ELSE /\ pc' = "collect"
                 /\ \E c \in components_in(FieldOf(loc.c.array), SurdMat(loc.c.array),
                                           "Line", DecomposedIsReal) :
                        loc' = [c |-> loc.c, components |-> c]
    /\ UNCHANGED <<op, args, res>>

\* The points of the lists a and b can be compared: they are numbers
\* a + b sqrt(r) for the same r, or one of the lists is rational.
Comparable(a, b) == a.rad = b.rad \/ a.rad = 1 \/ b.rad = 1

\* Lines 335-337.  self.intersect(e) and self.intersect(f) are calls of the same
\* method with a component as operand; iterating over the None that the second
\* one returns for an operand that is no line raises TypeError.
IntersectCollect ==
    /\ pc = "collect"
    /\ \E r1 \in intersect_linear(args.q, ComponentOperand(loc.components, loc.components.e)),
          r2 \in intersect_linear(args.q, ComponentOperand(loc.components, loc.components.f)) :
            /\ loc' = [first |-> r1, second |-> r2] @@ loc
            /\ IF r2 = None
               THEN /\ pc' = "raised"
                    /\ res' = TypeError
               ELSE IF r1 = Unevaluated \/ r2 = Unevaluated
                    THEN /\ pc' = "unevaluated"
                         /\ res' = res
                    ELSE IF ~Comparable(r1, r2)
                         THEN /\ pc' = "unevaluated"
                              /\ res' = res
                         ELSE /\ pc' = "done"
                              /\ res' = LET r == IF r1.rad = 1 THEN r2.rad ELSE r1.rad
                                        IN  PointList(r, collect(r, r1.points, r2.points))
    /\ UNCHANGED <<op, args>>

SpecIntersectQuadric ==
    InitIntersectQuadric /\
        [][IntersectDegenerate \/ IntersectPencil \/ IntersectComponents \/ IntersectCollect]_vars

(***************************************************************************)
(* Conic.tangent(at) for a point that is not on the conic (lines 505-506). *)
(***************************************************************************)
\* at.join(p) for two points of the plane: the line through both.
join_points(r, a, b) == SurdCross(r, a, b)

\* p, q = [...] on a list that has not two entries.
UnpackError == Raised("ValueError")

InitConicTangent ==
    /\ op = "tangent"
    /\ \E m \in SymMatrices3, p \in Points3 :
            args = [q |-> Quadric("Conic", m, FALSE), at |-> p]
    /\ res = Pending
    /\ pc = "call"
    /\ loc = NoLocals

\* p, q = self.intersect(self.polar(at)); return at.join(p), at.join(q)
CallConicTangentOff ==
    /\ pc = "call"
    /\ op = "tangent"
    /\ args.q.cls = "Conic"
    /\ ~contains(args.q, args.at)
    /\ \E r \in intersect_linear(args.q, LineOperand(1, SurdVec(polar(args.q, args.at)), TRUE)) :
          IF r = Unevaluated
          THEN /\ pc' = "unevaluated"
               /\ res' = res
               /\ loc' = loc
          ELSE IF Len(r.points) # 2
               THEN /\ pc' = "raised"
                    /\ res' = UnpackError
                    /\ loc' = r
               ELSE /\ pc' = "done"
                    /\ res' = << join_points(r.rad, SurdVec(args.at), r.points[1]),
                                 join_points(r.rad, SurdVec(args.at), r.points[2]) >>
                    /\ loc' = r
    /\ UNCHANGED <<op, args>>

SpecConicTangent == InitConicTangent /\ [][CallConicTangentOn \/ CallConicTangentOff]_vars

(***************************************************************************)
(* Notions the properties are stated with.                                 *)
(***************************************************************************)
\* a and b are the same projective element: both are non-zero and all 2x2
\* minors of the pair vanish.
Proportional(a, b) ==
    /\ ~IsZero(a)
    /\ ~IsZero(b)
    /\ \A i \in 1..Len(a) : \A j \in 1..Len(a) : a[i] * b[j] = a[j] * b[i]

\* One of a, b is a scalar multiple of the other.
Dependent(a, b) ==
    \A i \in 1..Len(a) : \A j \in 1..Len(a) : a[i] * b[j] = a[j] * b[i]

Symmetrized(u, v) == MatAdd(Outer(u, v), Outer(v, u))

Done(o) == op = o /\ pc = "done"

\* C1: the pair returned by Quadric.components for the quadric of two hyperplanes
\* u and v has a symmetrized outer product proportional to the quadric's matrix
\* (the components are u and v up to scale and order).
C1_ComponentsReconstruct ==
    Done("components") =>
        Proportional(Ravel(Symmetrized(res.e, res.f)), Ravel(args.q.array))

\* C2: for a line lying in neither e nor f, from_planes(e, f).intersect(line) is
\* the point e.meet(line) alone when it is also f.meet(line), and otherwise the
\* two points e.meet(line) and f.meet(line), up to scale and order.
C2_IntersectIsTheTwoMeets ==
    (Done("intersect") /\ args.other.type = "Line"
        /\ ~LiesIn(args.other.array, args.e) /\ ~LiesIn(args.other.array, args.f)) =>
        LET p == meet(args.e, args.other.array)
            r == meet(args.f, args.other.array)
        IN  IF Proportional(p, r)
            THEN Len(res) = 1 /\ Proportional(res[1], p)
            ELSE /\ Len(res) = 2
                 /\ \/ Proportional(res[1], p) /\ Proportional(res[2], r)
                    \/ Proportional(res[1], r) /\ Proportional(res[2], p)

\* C3: the tangent hyperplane of a quadric (the tangent line of a conic) at a
\* point of the quadric passes through that point.
C3_TangentThroughPoint ==
    (Done("tangent") /\ contains(args.q, args.at)) => Dot(res, args.at) = 0

C3_Witness ==
    /\ Done("tangent")
    /\ contains(args.q, args.at)
    /\ args.q.cls = "Conic"
    /\ ~IsZero(res)
    /\ is_degenerate(args.q) = FALSE

C3_WitnessSphere ==
    /\ Done("tangent")
    /\ contains(args.q, args.at)
    /\ args.q.cls = "Sphere"
    /\ ~IsZero(res)

IsQuadric(v) == ~IsRaised(v)

\* a / da is the inverse of b / db.
IsInverse(a, da, b, db) == MatMul(a, b) = MatScale(da * db, Identity(Len(a)))

\* C4: for a non-degenerate quadric Q, Q.dual is a quadric with the inverse matrix
\* and the opposite is_dual flag, and Q.dual.dual is a quadric of Q's class with
\* Q's flag and a matrix proportional to Q's.
C4_DualOfDual ==
    (op = "dual" /\ pc # "call") =>
        /\ IsQuadric(res[1])
        /\ IsInverse(res[1].array, res[1].den, args.q.array, args.q.den)
        /\ res[1].is_dual = ~args.q.is_dual
        /\ pc = "done" =>
             /\ IsQuadric(res[2])
             /\ Proportional(Ravel(res[2].array), Ravel(args.q.array))
             /\ res[2].is_dual = args.q.is_dual
             /\ res[2].cls = args.q.cls

\* The same, for the classes built from a matrix (Quadric and Conic).
C4_DualOfDualMatrixClasses ==
    (op = "dual" /\ pc # "call" /\ args.q.cls \in MatrixClasses) =>
        /\ IsQuadric(res[1])
        /\ IsInverse(res[1].array, res[1].den, args.q.array, args.q.den)
        /\ res[1].is_dual = ~args.q.is_dual
        /\ pc # "dual"
             => /\ pc = "done"
                /\ IsQuadric(res[2])
                /\ Proportional(Ravel(res[2].array), Ravel(args.q.array))
                /\ res[2].is_dual = args.q.is_dual
                /\ res[2].cls = args.q.cls

UnitCircle == Circle(<<0, 0, 1>>, 1)

FiveDistinctOn(q, pts) ==
    /\ \A i \in 1..5 : contains(q, pts[i])
    /\ \A i \in 1..5 : \A j \in 1..5 : i # j => ~Proportional(pts[i], pts[j])

\* C5: Conic.from_points returns a conic with a symmetric matrix that contains
\* each of the five points; for five distinct points of the unit circle the
\* matrix is proportional to the matrix of Circle(radius=1).
C5_FromPoints ==
    Done("from_points") =>
        /\ res.cls = "Conic"
        /\ res.array = Transpose(res.array)
        /\ \A i \in 1..5 : contains(res, args[i])
        /\ FiveDistinctOn(UnitCircle, args) =>
               Proportional(Ravel(res.array), Ravel(UnitCircle.array))

C5_Witness ==
    /\ Done("from_points")
    /\ FiveDistinctOn(UnitCircle, args)
    /\ args[5] = <<3, 4, 5>>
    /\ args[1] = <<0, 0 - 2, 2>>
    /\ ~IsZero(Ravel(res.array))

\* The rationals a[1]/a[2] and b[1]/b[2] are equal.
RatEq(a, b) == a[1] * b[2] = b[1] * a[2]

\* C6: Circle.area() is pi * radius^2 for the radius the accessor recovers, which
\* is the radius the circle was built with; Circle(radius=1).area() is pi.
C6_AreaIsPiRSquared ==
    Done("area") =>
        /\ RatEq(res.radius, <<args.radius, 1>>)
        /\ RatEq(res.area.pi_times, <<res.radius[1] * res.radius[1], res.radius[2] * res.radius[2]>>)
        /\ args.radius = 1 => RatEq(res.area.pi_times, <<1, 1>>)

SomeOnTangent ==
    \E pt \in {args.a, args.b, args.c, args.d} : Dot(args.tangent, pt) = 0

\* C7: Conic.from_tangent raises ValueError, and returns no conic, exactly when
\* the tangent contains one of a, b, c, d; the raise comes before any
\* construction step.
C7_FromTangentRaises ==
    (op = "from_tangent" /\ pc # "call") =>
        /\ SomeOnTangent => (pc = "raised" /\ res = ValueError)
        /\ ~SomeOnTangent => (pc \in {"construct", "done"} /\ ~IsRaised(res))

C7_Witness ==
    /\ op = "from_tangent"
    /\ pc = "raised"
    /\ res = ValueError
    /\ Dot(args.tangent, args.d) = 0
    /\ Dot(args.tangent, args.a) # 0
    /\ Dot(args.tangent, args.b) # 0
    /\ Dot(args.tangent, args.c) # 0

\* Where the construction was evaluated, the conic goes through a, b, c, d and
\* touches the tangent at the fifth point x.
FromTangentIsTangent ==
    (Done("from_tangent") /\ "conic" \in DOMAIN res /\ ~IsZero(Ravel(res.conic.array))) =>
        /\ \A pt \in {args.a, args.b, args.c, args.d} : contains(res.conic, pt)
        /\ contains(res.conic, res.x)
        /\ Dependent(polar(res.conic, res.x), args.tangent)

FromTangentEvaluated ==
    /\ Done("from_tangent")
    /\ "conic" \in DOMAIN res
    /\ ~is_degenerate(res.conic)

\* The operand's class is one intersect has no branch for.
UnsupportedOperand ==
    \/ op = "curve_intersect"
        /\ ~isinstance(args.other, "Line") /\ ~isinstance(args.other, "AlgebraicCurve")
    \/ op = "intersect"
        /\ ~isinstance(args.other, "Line") /\ ~isinstance(args.other, "Quadric")

\* C8: AlgebraicCurve.intersect and Quadric.intersect, given an operand of a class
\* they do not support, end with an error.
C8_UnsupportedOperandIsAnError ==
    (UnsupportedOperand /\ pc # "call") => (pc = "raised" /\ IsRaised(res))

\* The part of C8 about AlgebraicCurve.intersect alone.
C8_CurveUnsupportedOperandRaises ==
    (op = "curve_intersect" /\ UnsupportedOperand /\ pc # "call") =>
        (pc = "raised" /\ res = NotImplementedError)

C8_CurveWitness ==
    op = "curve_intersect" /\ UnsupportedOperand /\ pc = "raised"

\* The points of one chart, when the solver solved it.
ChartPoints(z) ==
    IF IsSolved(args.solver[z + 1])
    THEN { ChartPoint(cor, z) : cor \in args.solver[z + 1].solutions }
    ELSE {}

\* The non-zero solutions of the charts that were solved, each with its chart
\* value as last coordinate.
SolvedChartPoints ==
    { real_if_close(x) : x \in { y \in ChartPoints(0) \cup ChartPoints(1) : NonZeroTensor(y) } }

\* C9: AlgebraicCurve.intersect with a Line or AlgebraicCurve operand calls the
\* solver once on chart 0 and once on chart 1 and returns normally, whatever the
\* solver does on a chart, with exactly the non-zero solutions of the solved
\* charts, each ending in its chart value.
C9_ChartsTriedOnceAndSolverFailureNotFatal ==
    (op = "curve_intersect" /\ ~UnsupportedOperand /\ pc \notin {"call", "chart"}) =>
        /\ pc = "done"
        /\ loc.tried = Charts
        /\ res = SolvedChartPoints

\* The same for the calls in which the solver raises NotImplementedError or
\* returns a list on every chart.
CurveIntersectWhenSolverAnswers ==
    (op = "curve_intersect" /\ ~UnsupportedOperand /\ pc \notin {"call", "chart"}
        /\ None \notin {args.solver[1], args.solver[2]}) =>
        /\ pc = "done"
        /\ loc.tried = Charts
        /\ res = SolvedChartPoints

CurveIntersectOneChartFailed ==
    /\ op = "curve_intersect"
    /\ pc = "done"
    /\ args.solver[1] = NotImplementedError
    /\ res # {}

\* C10: is_multiple(a, b) is true exactly when one of a, b is a scalar multiple of
\* the other.
C10_IsMultipleIffDependent ==
    Done("is_multiple") => (res <=> Dependent(args.a, args.b))

C10_Witness ==
    /\ Done("is_multiple")
    /\ ~IsZero(args.a)
    /\ args.b = Scale(0 - 2, args.a)
    /\ res = TRUE

\* C11: when Quadric.intersect(other) is given a non-degenerate quadric other, the
\* value t it picks is a root of det(M + t M') taken with all of its coefficients,
\* and the quadric M + t M' it goes on to decompose is degenerate.
C11_PencilRootIsARoot ==
    (op = "intersect" /\ isinstance(args.other, "Quadric") /\ pc = "components") =>
        /\ PolyAt(loc.f, loc.root[1], loc.root[2]) = 0
        /\ is_degenerate(loc.c)

\* The same when no coefficient of det(M + t M') is 0.
PencilRootWithAllCoefficients ==
    (op = "intersect" /\ isinstance(args.other, "Quadric") /\ pc = "components"
        /\ coeffs(loc.f) = loc.f) =>
        /\ PolyAt(loc.f, loc.root[1], loc.root[2]) = 0
        /\ is_degenerate(loc.c)

\* No two entries of the list s are the same point.
NoPointTwice(r, s) ==
    \A i \in 1..Len(s) : \A j \in 1..Len(s) : (i < j => ~SurdIsMultiple(r, s[i], s[j]))

\* The call of Quadric.intersect with a quadric operand has decomposed a quadric
\* into e and f and has ended.
IntersectQuadricEnded ==
    /\ op = "intersect"
    /\ isinstance(args.other, "Quadric")
    /\ pc \in {"done", "raised"}
    /\ "components" \in DOMAIN loc

\* The returned list: the points of self.intersect(e), then the points of
\* self.intersect(f) that are not among them, and no point twice.
IntersectQuadricResult ==
    /\ pc = "done"
    /\ IsPointList(res)
    /\ IsPointList(loc.first)
    /\ IsPointList(loc.second)
    /\ LET r == res.rad
           r1 == loc.first.points
           r2 == loc.second.points
       IN  /\ \E k \in 0..Len(r2) :
                 /\ Len(res.points) = Len(r1) + k
                 /\ \A i \in 1..Len(r1) : res.points[i] = r1[i]
                 /\ \A i \in 1..Len(r2) : InList(r, r2[i], r1) \/ InList(r, r2[i], res.points)
                 /\ \A i \in (Len(r1) + 1)..Len(res.points) :
                       /\ \E j \in 1..Len(r2) : res.points[i] = r2[j]
                       /\ ~InList(r, res.points[i], r1)
           /\ NoPointTwice(r, res.points)

\* C12: Quadric.intersect with a quadric operand, in any dimension and either
\* duality, returns the points of self.intersect(e) followed by the points of
\* self.intersect(f) not already listed, with no point twice, and does not fail
\* when the components e and f are planes or points.
C12_IntersectQuadricCollects ==
    IntersectQuadricEnded => IntersectQuadricResult

\* The same for the conics of the plane, whose components are lines.
IntersectQuadricCollectsForLines ==
    (IntersectQuadricEnded /\ loc.components.type = "Line") => IntersectQuadricResult

IntersectQuadricTwoPoints ==
    /\ IntersectQuadricEnded
    /\ pc = "done"
    /\ Len(res.points) >= 2

\* a and b, arrays of numbers a + b sqrt(r), are the same projective element.
SurdProportional(r, a, b) ==
    /\ ~SurdIsZero(a)
    /\ ~SurdIsZero(b)
    /\ \A i \in 1..Len(a) : \A j \in 1..Len(a) :
          SurdMul(r, a[i], b[j]) = SurdMul(r, a[j], b[i])

\* The point p lies on the line l.
OnLine(r, p, l) == SurdDot(r, l, p) = <<0, 0>>

\* The point p lies on the conic q.
OnConic(r, q, p) == SurdDot(r, p, SurdMatVec(r, SurdMat(q.array), p)) = <<0, 0>>

\* The two lines join at to the two points in which the polar of at meets the
\* conic.
TwoTangents ==
    LET r == loc.rad
        at == SurdVec(args.at)
    IN  /\ Len(res) = 2
        /\ Len(loc.points) = 2
        /\ ~SurdIsMultiple(r, loc.points[1], loc.points[2])
        /\ \A i \in 1..2 :
              /\ ~SurdIsZero(loc.points[i])
              /\ OnConic(r, args.q, loc.points[i])
              /\ OnLine(r, loc.points[i], SurdVec(polar(args.q, args.at)))
        /\ \/ SurdProportional(r, res[1], SurdCross(r, at, loc.points[1]))
                /\ SurdProportional(r, res[2], SurdCross(r, at, loc.points[2]))
           \/ SurdProportional(r, res[1], SurdCross(r, at, loc.points[2]))
                /\ SurdProportional(r, res[2], SurdCross(r, at, loc.points[1]))

\* C13: Conic.tangent(at) returns the polar line of at when at is on the conic,
\* and otherwise returns two lines, each joining at to one of the two points in
\* which the polar of at meets the conic; it returns in both cases, for
\* degenerate conics and for a polar that meets the conic in one point as well.
C13_ConicTangent ==
    (op = "tangent" /\ args.q.cls = "Conic" /\ pc \in {"done", "raised"}) =>
        /\ pc = "done"
        /\ contains(args.q, args.at) => res = polar(args.q, args.at)
        /\ ~contains(args.q, args.at) => TwoTangents

Init ==
    \/ InitIsMultiple
    \/ InitComponents
    \/ InitIntersectLine
    \/ InitTangent
    \/ InitDual
    \/ InitFromPoints
    \/ InitArea
    \/ InitFromTangent
    \/ InitCurveIntersect
    \/ InitIntersectOther
    \/ InitIntersectPencil
    \/ InitIntersectQuadric
    \/ InitConicTangent

Next ==
    \/ CallIsMultiple
    \/ CallComponents
    \/ CallIntersectLine
    \/ CallQuadricTangent
    \/ CallConicTangentOn
    \/ CallDual
    \/ CallDualOfDual
    \/ CallFromPoints
    \/ CallArea
    \/ FromTangentCheck
    \/ FromTangentConstruct
    \/ CurveIntersectDispatch
    \/ CurveIntersectChart
    \/ CurveIntersectReturn
    \/ CallIntersectOther
    \/ IntersectPencil
    \/ IntersectDegenerate
    \/ IntersectComponents
    \/ IntersectCollect
    \/ CallConicTangentOff

Spec == Init /\ [][Next]_vars
====
